---- MODULE Spec2Model ----
(***************************************************************************)
(* A model of the `migrate` command of gdsfactory (src/gdsfactory/cli.py). *)
(*                                                                         *)
(* Two specifications share the module:                                    *)
(*   SpecRewrite - the two-pass regular-expression rewrite (pattern1 then  *)
(*                 pattern2) applied to texts built from small fragments;  *)
(*   Spec        - one run of migrate over a small file system, step by    *)
(*                 step: argument handling, the single-file branch, and    *)
(*                 the two directory loops.                                *)
(*                                                                         *)
(* Texts are sequences of Unicode code points.  Paths are sequences of      *)
(* components (pathlib's `parts`); a component is a record of its stem and *)
(* suffix.  Path equality is equality of spelling, as in pathlib; the file *)
(* system is keyed by the resolved (absolute) spelling.                    *)
(***************************************************************************)
EXTENDS Integers, Sequences, FiniteSets, TLC

VARIABLES
    \* ---- one run of migrate (Spec) ----
    input,      \* the `input` local: the argument, then its resolved form
    output,     \* the `output` local: the argument, then as reassigned
    inplace,    \* the --inplace flag
    pc,         \* position in migrate: "start", "resolved", "walk_out", "walk_in", "done", "failed"
    files,      \* file system: location -> bytes of every existing regular file
    dirs,       \* file system: set of existing directories
    readonly,   \* file system: files that cannot be opened for writing
    files0,     \* the files before the run
    dirs0,      \* the directories before the run
    arg,        \* the arguments as given; output_is_none tells an absent output
    room,       \* sys.getrecursionlimit() less the depth of migrate's frame
    cur,        \* the directory rglob is listing
    pending,    \* per level of rglob's recursion, the sub-directories still to enter
    todo,       \* paths of the directory cur that rglob has still to yield
    enumerated, \* every path rglob has listed for yielding in this run
    readlog,    \* locations opened for reading
    written,    \* locations opened for writing
    notices,    \* "Updated" notices printed, with the labels of their diff
    error,      \* the exception that ended the run ("" when none)
    failedAt,   \* the source path being processed when the exception was raised
    \* ---- the rewrite on its own (SpecRewrite) ----
    content,     \* text read from the file
    mid,         \* result of pattern1.sub
    new_content, \* result of pattern2.sub
    rw_pc,       \* "read", "pass1", "pass2"
    runs         \* how many times the rewrite has been started on this text

fsvars == <<input, output, inplace, pc, files, dirs, readonly, files0, dirs0, arg, room,
            cur, pending, todo, enumerated, readlog, written, notices, error,
            failedAt>>
rwvars == <<content, mid, new_content, rw_pc, runs>>
vars == <<fsvars, rwvars>>

-----------------------------------------------------------------------------
(* Bounds *)

\* number of fragments concatenated into an initial text
MaxPieces == 3
\* number of times the rewrite is run over the same file
MaxRuns == 2
\* largest number of frames left to a call of migrate
MaxRoom == 10

\* The frames the interpreter still allows above the frame of migrate (the
\* recursion limit less the depth of the call) are the caller's matter.  With
\* fewer than MinRoom the calls of the loop itself (rglob listing one
\* directory, mkdir, unified_diff) exceed the limit; this is CPython 3.11
\* with the patterns of lines 181-184 and of rglob already compiled.
MinRoom == 9
Rooms == MinRoom..MaxRoom

-----------------------------------------------------------------------------
(* The rename catalogue and the two patterns *)

\* center, mirror, move, movex, movey, rotate, size_info, x, xmin, xmax,
\* xsize, y, ymin, ymax, ysize
to_be_replaced ==
    { <<99, 101, 110, 116, 101, 114>>,
      <<109, 105, 114, 114, 111, 114>>,
      <<109, 111, 118, 101>>,
      <<109, 111, 118, 101, 120>>,
      <<109, 111, 118, 101, 121>>,
      <<114, 111, 116, 97, 116, 101>>,
      <<115, 105, 122, 101, 95, 105, 110, 102, 111>>,
      <<120>>,
      <<120, 109, 105, 110>>,
      <<120, 109, 97, 120>>,
      <<120, 115, 105, 122, 101>>,
      <<121>>,
      <<121, 109, 105, 110>>,
      <<121, 109, 97, 120>>,
      <<121, 115, 105, 122, 101>> }

\* the characters of an ASCII identifier: 0-9, A-Z, _ and a-z
AsciiWordChars == (48..57) \cup (65..90) \cup {95} \cup (97..122)

\* the ranges of code points above 127 that \w matches in a str pattern
\* (str.isalnum of CPython 3.11: Unicode letters, digits and numbers)
WordRanges ==
    { <<170, 170>>, <<178, 179>>, <<181, 181>>, <<185, 186>>, <<188, 190>>,
      <<192, 214>>, <<216, 246>>, <<248, 705>>, <<710, 721>>, <<736, 740>>,
      <<748, 748>>, <<750, 750>>, <<880, 884>>, <<886, 887>>, <<890, 893>>,
      <<895, 895>>, <<902, 902>>, <<904, 906>>, <<908, 908>>, <<910, 929>>,
      <<931, 1013>>, <<1015, 1153>>, <<1162, 1327>>, <<1329, 1366>>,
      <<1369, 1369>>, <<1376, 1416>>, <<1488, 1514>>, <<1519, 1522>>,
      <<1568, 1610>>, <<1632, 1641>>, <<1646, 1647>>, <<1649, 1747>>,
      <<1749, 1749>>, <<1765, 1766>>, <<1774, 1788>>, <<1791, 1791>>,
      <<1808, 1808>>, <<1810, 1839>>, <<1869, 1957>>, <<1969, 1969>>,
      <<1984, 2026>>, <<2036, 2037>>, <<2042, 2042>>, <<2048, 2069>>,
      <<2074, 2074>>, <<2084, 2084>>, <<2088, 2088>>, <<2112, 2136>>,
      <<2144, 2154>>, <<2160, 2183>>, <<2185, 2190>>, <<2208, 2249>>,
      <<2308, 2361>>, <<2365, 2365>>, <<2384, 2384>>, <<2392, 2401>>,
      <<2406, 2415>>, <<2417, 2432>>, <<2437, 2444>>, <<2447, 2448>>,
      <<2451, 2472>>, <<2474, 2480>>, <<2482, 2482>>, <<2486, 2489>>,
      <<2493, 2493>>, <<2510, 2510>>, <<2524, 2525>>, <<2527, 2529>>,
      <<2534, 2545>>, <<2548, 2553>>, <<2556, 2556>>, <<2565, 2570>>,
      <<2575, 2576>>, <<2579, 2600>>, <<2602, 2608>>, <<2610, 2611>>,
      <<2613, 2614>>, <<2616, 2617>>, <<2649, 2652>>, <<2654, 2654>>,
      <<2662, 2671>>, <<2674, 2676>>, <<2693, 2701>>, <<2703, 2705>>,
      <<2707, 2728>>, <<2730, 2736>>, <<2738, 2739>>, <<2741, 2745>>,
      <<2749, 2749>>, <<2768, 2768>>, <<2784, 2785>>, <<2790, 2799>>,
      <<2809, 2809>>, <<2821, 2828>>, <<2831, 2832>>, <<2835, 2856>>,
      <<2858, 2864>>, <<2866, 2867>>, <<2869, 2873>>, <<2877, 2877>>,
      <<2908, 2909>>, <<2911, 2913>>, <<2918, 2927>>, <<2929, 2935>>,
      <<2947, 2947>>, <<2949, 2954>>, <<2958, 2960>>, <<2962, 2965>>,
      <<2969, 2970>>, <<2972, 2972>>, <<2974, 2975>>, <<2979, 2980>>,
      <<2984, 2986>>, <<2990, 3001>>, <<3024, 3024>>, <<3046, 3058>>,
      <<3077, 3084>>, <<3086, 3088>>, <<3090, 3112>>, <<3114, 3129>>,
      <<3133, 3133>>, <<3160, 3162>>, <<3165, 3165>>, <<3168, 3169>>,
      <<3174, 3183>>, <<3192, 3198>>, <<3200, 3200>>, <<3205, 3212>>,
      <<3214, 3216>>, <<3218, 3240>>, <<3242, 3251>>, <<3253, 3257>>,
      <<3261, 3261>>, <<3293, 3294>>, <<3296, 3297>>, <<3302, 3311>>,
      <<3313, 3314>>, <<3332, 3340>>, <<3342, 3344>>, <<3346, 3386>>,
      <<3389, 3389>>, <<3406, 3406>>, <<3412, 3414>>, <<3416, 3425>>,
      <<3430, 3448>>, <<3450, 3455>>, <<3461, 3478>>, <<3482, 3505>>,
      <<3507, 3515>>, <<3517, 3517>>, <<3520, 3526>>, <<3558, 3567>>,
      <<3585, 3632>>, <<3634, 3635>>, <<3648, 3654>>, <<3664, 3673>>,
      <<3713, 3714>>, <<3716, 3716>>, <<3718, 3722>>, <<3724, 3747>>,
      <<3749, 3749>>, <<3751, 3760>>, <<3762, 3763>>, <<3773, 3773>>,
      <<3776, 3780>>, <<3782, 3782>>, <<3792, 3801>>, <<3804, 3807>>,
      <<3840, 3840>>, <<3872, 3891>>, <<3904, 3911>>, <<3913, 3948>>,
      <<3976, 3980>>, <<4096, 4138>>, <<4159, 4169>>, <<4176, 4181>>,
      <<4186, 4189>>, <<4193, 4193>>, <<4197, 4198>>, <<4206, 4208>>,
      <<4213, 4225>>, <<4238, 4238>>, <<4240, 4249>>, <<4256, 4293>>,
      <<4295, 4295>>, <<4301, 4301>>, <<4304, 4346>>, <<4348, 4680>>,
      <<4682, 4685>>, <<4688, 4694>>, <<4696, 4696>>, <<4698, 4701>>,
      <<4704, 4744>>, <<4746, 4749>>, <<4752, 4784>>, <<4786, 4789>>,
      <<4792, 4798>>, <<4800, 4800>>, <<4802, 4805>>, <<4808, 4822>>,
      <<4824, 4880>>, <<4882, 4885>>, <<4888, 4954>>, <<4969, 4988>>,
      <<4992, 5007>>, <<5024, 5109>>, <<5112, 5117>>, <<5121, 5740>>,
      <<5743, 5759>>, <<5761, 5786>>, <<5792, 5866>>, <<5870, 5880>>,
      <<5888, 5905>>, <<5919, 5937>>, <<5952, 5969>>, <<5984, 5996>>,
      <<5998, 6000>>, <<6016, 6067>>, <<6103, 6103>>, <<6108, 6108>>,
      <<6112, 6121>>, <<6128, 6137>>, <<6160, 6169>>, <<6176, 6264>>,
      <<6272, 6276>>, <<6279, 6312>>, <<6314, 6314>>, <<6320, 6389>>,
      <<6400, 6430>>, <<6470, 6509>>, <<6512, 6516>>, <<6528, 6571>>,
      <<6576, 6601>>, <<6608, 6618>>, <<6656, 6678>>, <<6688, 6740>>,
      <<6784, 6793>>, <<6800, 6809>>, <<6823, 6823>>, <<6917, 6963>>,
      <<6981, 6988>>, <<6992, 7001>>, <<7043, 7072>>, <<7086, 7141>>,
      <<7168, 7203>>, <<7232, 7241>>, <<7245, 7293>>, <<7296, 7304>>,
      <<7312, 7354>>, <<7357, 7359>>, <<7401, 7404>>, <<7406, 7411>>,
      <<7413, 7414>>, <<7418, 7418>>, <<7424, 7615>>, <<7680, 7957>>,
      <<7960, 7965>>, <<7968, 8005>>, <<8008, 8013>>, <<8016, 8023>>,
      <<8025, 8025>>, <<8027, 8027>>, <<8029, 8029>>, <<8031, 8061>>,
      <<8064, 8116>>, <<8118, 8124>>, <<8126, 8126>>, <<8130, 8132>>,
      <<8134, 8140>>, <<8144, 8147>>, <<8150, 8155>>, <<8160, 8172>>,
      <<8178, 8180>>, <<8182, 8188>>, <<8304, 8305>>, <<8308, 8313>>,
      <<8319, 8329>>, <<8336, 8348>>, <<8450, 8450>>, <<8455, 8455>>,
      <<8458, 8467>>, <<8469, 8469>>, <<8473, 8477>>, <<8484, 8484>>,
      <<8486, 8486>>, <<8488, 8488>>, <<8490, 8493>>, <<8495, 8505>>,
      <<8508, 8511>>, <<8517, 8521>>, <<8526, 8526>>, <<8528, 8585>>,
      <<9312, 9371>>, <<9450, 9471>>, <<10102, 10131>>, <<11264, 11492>>,
      <<11499, 11502>>, <<11506, 11507>>, <<11517, 11517>>, <<11520, 11557>>,
      <<11559, 11559>>, <<11565, 11565>>, <<11568, 11623>>, <<11631, 11631>>,
      <<11648, 11670>>, <<11680, 11686>>, <<11688, 11694>>, <<11696, 11702>>,
      <<11704, 11710>>, <<11712, 11718>>, <<11720, 11726>>, <<11728, 11734>>,
      <<11736, 11742>>, <<11823, 11823>>, <<12293, 12295>>, <<12321, 12329>>,
      <<12337, 12341>>, <<12344, 12348>>, <<12353, 12438>>, <<12445, 12447>>,
      <<12449, 12538>>, <<12540, 12543>>, <<12549, 12591>>, <<12593, 12686>>,
      <<12690, 12693>>, <<12704, 12735>>, <<12784, 12799>>, <<12832, 12841>>,
      <<12872, 12879>>, <<12881, 12895>>, <<12928, 12937>>, <<12977, 12991>>,
      <<13312, 19903>>, <<19968, 42124>>, <<42192, 42237>>, <<42240, 42508>>,
      <<42512, 42539>>, <<42560, 42606>>, <<42623, 42653>>, <<42656, 42735>>,
      <<42775, 42783>>, <<42786, 42888>>, <<42891, 42954>>, <<42960, 42961>>,
      <<42963, 42963>>, <<42965, 42969>>, <<42994, 43009>>, <<43011, 43013>>,
      <<43015, 43018>>, <<43020, 43042>>, <<43056, 43061>>, <<43072, 43123>>,
      <<43138, 43187>>, <<43216, 43225>>, <<43250, 43255>>, <<43259, 43259>>,
      <<43261, 43262>>, <<43264, 43301>>, <<43312, 43334>>, <<43360, 43388>>,
      <<43396, 43442>>, <<43471, 43481>>, <<43488, 43492>>, <<43494, 43518>>,
      <<43520, 43560>>, <<43584, 43586>>, <<43588, 43595>>, <<43600, 43609>>,
      <<43616, 43638>>, <<43642, 43642>>, <<43646, 43695>>, <<43697, 43697>>,
      <<43701, 43702>>, <<43705, 43709>>, <<43712, 43712>>, <<43714, 43714>>,
      <<43739, 43741>>, <<43744, 43754>>, <<43762, 43764>>, <<43777, 43782>>,
      <<43785, 43790>>, <<43793, 43798>>, <<43808, 43814>>, <<43816, 43822>>,
      <<43824, 43866>>, <<43868, 43881>>, <<43888, 44002>>, <<44016, 44025>>,
      <<44032, 55203>>, <<55216, 55238>>, <<55243, 55291>>, <<63744, 64109>>,
      <<64112, 64217>>, <<64256, 64262>>, <<64275, 64279>>, <<64285, 64285>>,
      <<64287, 64296>>, <<64298, 64310>>, <<64312, 64316>>, <<64318, 64318>>,
      <<64320, 64321>>, <<64323, 64324>>, <<64326, 64433>>, <<64467, 64829>>,
      <<64848, 64911>>, <<64914, 64967>>, <<65008, 65019>>, <<65136, 65140>>,
      <<65142, 65276>>, <<65296, 65305>>, <<65313, 65338>>, <<65345, 65370>>,
      <<65382, 65470>>, <<65474, 65479>>, <<65482, 65487>>, <<65490, 65495>>,
      <<65498, 65500>>, <<65536, 65547>>, <<65549, 65574>>, <<65576, 65594>>,
      <<65596, 65597>>, <<65599, 65613>>, <<65616, 65629>>, <<65664, 65786>>,
      <<65799, 65843>>, <<65856, 65912>>, <<65930, 65931>>, <<66176, 66204>>,
      <<66208, 66256>>, <<66273, 66299>>, <<66304, 66339>>, <<66349, 66378>>,
      <<66384, 66421>>, <<66432, 66461>>, <<66464, 66499>>, <<66504, 66511>>,
      <<66513, 66517>>, <<66560, 66717>>, <<66720, 66729>>, <<66736, 66771>>,
      <<66776, 66811>>, <<66816, 66855>>, <<66864, 66915>>, <<66928, 66938>>,
      <<66940, 66954>>, <<66956, 66962>>, <<66964, 66965>>, <<66967, 66977>>,
      <<66979, 66993>>, <<66995, 67001>>, <<67003, 67004>>, <<67072, 67382>>,
      <<67392, 67413>>, <<67424, 67431>>, <<67456, 67461>>, <<67463, 67504>>,
      <<67506, 67514>>, <<67584, 67589>>, <<67592, 67592>>, <<67594, 67637>>,
      <<67639, 67640>>, <<67644, 67644>>, <<67647, 67669>>, <<67672, 67702>>,
      <<67705, 67742>>, <<67751, 67759>>, <<67808, 67826>>, <<67828, 67829>>,
      <<67835, 67867>>, <<67872, 67897>>, <<67968, 68023>>, <<68028, 68047>>,
      <<68050, 68096>>, <<68112, 68115>>, <<68117, 68119>>, <<68121, 68149>>,
      <<68160, 68168>>, <<68192, 68222>>, <<68224, 68255>>, <<68288, 68295>>,
      <<68297, 68324>>, <<68331, 68335>>, <<68352, 68405>>, <<68416, 68437>>,
      <<68440, 68466>>, <<68472, 68497>>, <<68521, 68527>>, <<68608, 68680>>,
      <<68736, 68786>>, <<68800, 68850>>, <<68858, 68899>>, <<68912, 68921>>,
      <<69216, 69246>>, <<69248, 69289>>, <<69296, 69297>>, <<69376, 69415>>,
      <<69424, 69445>>, <<69457, 69460>>, <<69488, 69505>>, <<69552, 69579>>,
      <<69600, 69622>>, <<69635, 69687>>, <<69714, 69743>>, <<69745, 69746>>,
      <<69749, 69749>>, <<69763, 69807>>, <<69840, 69864>>, <<69872, 69881>>,
      <<69891, 69926>>, <<69942, 69951>>, <<69956, 69956>>, <<69959, 69959>>,
      <<69968, 70002>>, <<70006, 70006>>, <<70019, 70066>>, <<70081, 70084>>,
      <<70096, 70106>>, <<70108, 70108>>, <<70113, 70132>>, <<70144, 70161>>,
      <<70163, 70187>>, <<70272, 70278>>, <<70280, 70280>>, <<70282, 70285>>,
      <<70287, 70301>>, <<70303, 70312>>, <<70320, 70366>>, <<70384, 70393>>,
      <<70405, 70412>>, <<70415, 70416>>, <<70419, 70440>>, <<70442, 70448>>,
      <<70450, 70451>>, <<70453, 70457>>, <<70461, 70461>>, <<70480, 70480>>,
      <<70493, 70497>>, <<70656, 70708>>, <<70727, 70730>>, <<70736, 70745>>,
      <<70751, 70753>>, <<70784, 70831>>, <<70852, 70853>>, <<70855, 70855>>,
      <<70864, 70873>>, <<71040, 71086>>, <<71128, 71131>>, <<71168, 71215>>,
      <<71236, 71236>>, <<71248, 71257>>, <<71296, 71338>>, <<71352, 71352>>,
      <<71360, 71369>>, <<71424, 71450>>, <<71472, 71483>>, <<71488, 71494>>,
      <<71680, 71723>>, <<71840, 71922>>, <<71935, 71942>>, <<71945, 71945>>,
      <<71948, 71955>>, <<71957, 71958>>, <<71960, 71983>>, <<71999, 71999>>,
      <<72001, 72001>>, <<72016, 72025>>, <<72096, 72103>>, <<72106, 72144>>,
      <<72161, 72161>>, <<72163, 72163>>, <<72192, 72192>>, <<72203, 72242>>,
      <<72250, 72250>>, <<72272, 72272>>, <<72284, 72329>>, <<72349, 72349>>,
      <<72368, 72440>>, <<72704, 72712>>, <<72714, 72750>>, <<72768, 72768>>,
      <<72784, 72812>>, <<72818, 72847>>, <<72960, 72966>>, <<72968, 72969>>,
      <<72971, 73008>>, <<73030, 73030>>, <<73040, 73049>>, <<73056, 73061>>,
      <<73063, 73064>>, <<73066, 73097>>, <<73112, 73112>>, <<73120, 73129>>,
      <<73440, 73458>>, <<73648, 73648>>, <<73664, 73684>>, <<73728, 74649>>,
      <<74752, 74862>>, <<74880, 75075>>, <<77712, 77808>>, <<77824, 78894>>,
      <<82944, 83526>>, <<92160, 92728>>, <<92736, 92766>>, <<92768, 92777>>,
      <<92784, 92862>>, <<92864, 92873>>, <<92880, 92909>>, <<92928, 92975>>,
      <<92992, 92995>>, <<93008, 93017>>, <<93019, 93025>>, <<93027, 93047>>,
      <<93053, 93071>>, <<93760, 93846>>, <<93952, 94026>>, <<94032, 94032>>,
      <<94099, 94111>>, <<94176, 94177>>, <<94179, 94179>>, <<94208, 100343>>,
      <<100352, 101589>>, <<101632, 101640>>, <<110576, 110579>>,
      <<110581, 110587>>, <<110589, 110590>>, <<110592, 110882>>,
      <<110928, 110930>>, <<110948, 110951>>, <<110960, 111355>>,
      <<113664, 113770>>, <<113776, 113788>>, <<113792, 113800>>,
      <<113808, 113817>>, <<119520, 119539>>, <<119648, 119672>>,
      <<119808, 119892>>, <<119894, 119964>>, <<119966, 119967>>,
      <<119970, 119970>>, <<119973, 119974>>, <<119977, 119980>>,
      <<119982, 119993>>, <<119995, 119995>>, <<119997, 120003>>,
      <<120005, 120069>>, <<120071, 120074>>, <<120077, 120084>>,
      <<120086, 120092>>, <<120094, 120121>>, <<120123, 120126>>,
      <<120128, 120132>>, <<120134, 120134>>, <<120138, 120144>>,
      <<120146, 120485>>, <<120488, 120512>>, <<120514, 120538>>,
      <<120540, 120570>>, <<120572, 120596>>, <<120598, 120628>>,
      <<120630, 120654>>, <<120656, 120686>>, <<120688, 120712>>,
      <<120714, 120744>>, <<120746, 120770>>, <<120772, 120779>>,
      <<120782, 120831>>, <<122624, 122654>>, <<123136, 123180>>,
      <<123191, 123197>>, <<123200, 123209>>, <<123214, 123214>>,
      <<123536, 123565>>, <<123584, 123627>>, <<123632, 123641>>,
      <<124896, 124902>>, <<124904, 124907>>, <<124909, 124910>>,
      <<124912, 124926>>, <<124928, 125124>>, <<125127, 125135>>,
      <<125184, 125251>>, <<125259, 125259>>, <<125264, 125273>>,
      <<126065, 126123>>, <<126125, 126127>>, <<126129, 126132>>,
      <<126209, 126253>>, <<126255, 126269>>, <<126464, 126467>>,
      <<126469, 126495>>, <<126497, 126498>>, <<126500, 126500>>,
      <<126503, 126503>>, <<126505, 126514>>, <<126516, 126519>>,
      <<126521, 126521>>, <<126523, 126523>>, <<126530, 126530>>,
      <<126535, 126535>>, <<126537, 126537>>, <<126539, 126539>>,
      <<126541, 126543>>, <<126545, 126546>>, <<126548, 126548>>,
      <<126551, 126551>>, <<126553, 126553>>, <<126555, 126555>>,
      <<126557, 126557>>, <<126559, 126559>>, <<126561, 126562>>,
      <<126564, 126564>>, <<126567, 126570>>, <<126572, 126578>>,
      <<126580, 126583>>, <<126585, 126588>>, <<126590, 126590>>,
      <<126592, 126601>>, <<126603, 126619>>, <<126625, 126627>>,
      <<126629, 126633>>, <<126635, 126651>>, <<127232, 127244>>,
      <<130032, 130041>>, <<131072, 173791>>, <<173824, 177976>>,
      <<177984, 178205>>, <<178208, 183969>>, <<183984, 191456>>,
      <<194560, 195101>>, <<196608, 201546>> }

\* \w of a str pattern
IsWord(c) ==
    IF c <= 127 THEN c \in AsciiWordChars
    ELSE \E r \in WordRanges : r[1] <= c /\ c <= r[2]

\* \b at the position before character i of t (i in 1..Len(t)+1)
Boundary(t, i) ==
    LET left  == i > 1 /\ IsWord(t[i - 1])
        right == i <= Len(t) /\ IsWord(t[i])
    IN  left # right

\* the alternatives "d\.center|d\.mirror|..." of pattern1
QualifiedAlts == { <<100, 46>> \o r : r \in to_be_replaced }   \* "d."

\* the alternatives "center|mirror|..." of pattern2
BareAlts == to_be_replaced

\* literal alternative a matches t at position i
LiteralAt(t, i, a) ==
    /\ i + Len(a) - 1 <= Len(t)
    /\ \A k \in 1..Len(a) : t[i + k - 1] = a[k]

\* Variant of AltsAt for a pattern compiled without its leading \b.
AltsAtNoLeadingB(alts, t, i) ==
    { a \in alts : LiteralAt(t, i, a) /\ Boundary(t, i + Len(a)) }

\* Variant of AltsAt for a pattern compiled without its trailing \b.
AltsAtNoTrailingB(alts, t, i) ==
    IF Boundary(t, i) THEN { a \in alts : LiteralAt(t, i, a) } ELSE {}

\* the alternatives of \b(alts)\b that match t at position i.  The order of
\* the alternation is the iteration order of a Python set, which is not
\* fixed; because every alternative is followed by \b and consists of word
\* characters after its last ".", at most one alternative can match.
AltsAt(alts, t, i) ==
    IF Boundary(t, i)
    THEN { a \in alts : LiteralAt(t, i, a) /\ Boundary(t, i + Len(a)) }
    ELSE {}

\* replacement template r"d\1": the marker followed by group 1
replacement(group1) == <<100>> \o group1   \* "d"

RECURSIVE SubFrom(_, _, _)
\* re.sub scanning t from position i: leftmost non-overlapping matches
SubFrom(alts, t, i) ==
    IF i > Len(t) THEN <<>>
    ELSE LET ms == AltsAt(alts, t, i)
         IN  IF ms # {}
             THEN LET m == CHOOSE a \in ms : TRUE
                  IN  replacement(m) \o SubFrom(alts, t, i + Len(m))
             ELSE <<t[i]>> \o SubFrom(alts, t, i + 1)

\* Variant of pattern1_sub for a rewrite that leaves the first pass out.
pattern1_sub_skipped(t) == t

\* pattern1.sub(replacement, text)
pattern1_sub(t) == SubFrom(QualifiedAlts, t, 1)

\* pattern2.sub(replacement, text)
pattern2_sub(t) == SubFrom(BareAlts, t, 1)

\* new_content = pattern2.sub(replacement, pattern1.sub(replacement, content))
Rewrite(t) == pattern2_sub(pattern1_sub(t))

-----------------------------------------------------------------------------
(* Texts *)

\* d, d., re., x, xmin, center, re, ed, _old, movex, y, X, the letter
\* U+3042 (hiragana a) and the punctuation U+00B7 (middle dot)
Fragments ==
    { <<100>>,   \* "d"
      <<100, 46>>,   \* "d."
      <<114, 101, 46>>,   \* "re."
      <<120>>,   \* "x"
      <<120, 109, 105, 110>>,   \* "xmin"
      <<99, 101, 110, 116, 101, 114>>,   \* "center"
      <<114, 101>>,   \* "re"
      <<101, 100>>,   \* "ed"
      <<95, 111, 108, 100>>,   \* "_old"
      <<109, 111, 118, 101, 120>>,   \* "movex"
      <<121>>,   \* "y"
      <<88>>,   \* "X"
      <<12354>>,   \* "U+3042"
      <<183>> }   \* "U+00B7"

RECURSIVE PieceTexts(_)
\* every concatenation of at most n fragments
PieceTexts(n) ==
    IF n = 0 THEN { <<>> }
    ELSE LET shorter == PieceTexts(n - 1)
         IN  shorter \cup { t \o f : t \in shorter, f \in Fragments }

\* "p.center = (0, 0)\nd.center"
ScenarioText ==
    <<112, 46, 99, 101, 110, 116, 101, 114, 32, 61, 32, 40, 48, 44, 32, 48, 41, 10, 100, 46, 99, 101, 110, 116, 101, 114>>

\* "p.dcenter = (0, 0)\ndd.dcenter"
ScenarioRewritten ==
    <<112, 46, 100, 99, 101, 110, 116, 101, 114, 32, 61, 32, 40, 48, 44, 32, 48, 41, 10, 100, 100, 46, 100, 99, 101, 110, 116, 101, 114>>

Texts == PieceTexts(MaxPieces) \cup { ScenarioText }

-----------------------------------------------------------------------------
(* SpecRewrite: the rewrite, pass by pass, and re-run on its own output *)

NoText == <<>>

\* no path: the value of a path variable that holds nothing (for `output`
\* while it is None, arg.output_is_none tells it from the path ".")
NoPath == <<>>

\* no run of migrate is under way
FsIdle ==
    /\ input = NoPath /\ output = NoPath /\ inplace = FALSE /\ pc = "idle"
    /\ files = << >> /\ dirs = {} /\ readonly = {}
    /\ files0 = << >> /\ dirs0 = {}
    /\ arg = [input |-> NoPath, output |-> NoPath, output_is_none |-> TRUE,
              inplace |-> FALSE]
    /\ room = MinRoom
    /\ cur = NoPath /\ pending = <<>>
    /\ todo = {} /\ enumerated = {} /\ readlog = {} /\ written = {}
    /\ notices = {} /\ error = "" /\ failedAt = NoPath

RwIdle ==
    /\ content = NoText /\ mid = NoText /\ new_content = NoText
    /\ rw_pc = "read" /\ runs = 0

\* content = file.read()
InitRewrite ==
    /\ content \in Texts
    /\ mid = NoText
    /\ new_content = NoText
    /\ rw_pc = "read"
    /\ runs = 1
    /\ FsIdle

\* pattern1.sub(replacement, content)
QualifiedPass ==
    /\ rw_pc = "read"
    /\ mid' = pattern1_sub(content)
    /\ rw_pc' = "pass1"
    /\ UNCHANGED <<content, new_content, runs>>
    /\ UNCHANGED fsvars

\* pattern2.sub(replacement, <result of pattern1.sub>)
BarePass ==
    /\ rw_pc = "pass1"
    /\ new_content' = pattern2_sub(mid)
    /\ rw_pc' = "pass2"
    /\ UNCHANGED <<content, mid, runs>>
    /\ UNCHANGED fsvars

\* migrate is run again over the file that now holds new_content
RunAgain ==
    /\ rw_pc = "pass2"
    /\ runs < MaxRuns
    /\ content' = new_content
    /\ mid' = NoText
    /\ new_content' = NoText
    /\ rw_pc' = "read"
    /\ runs' = runs + 1
    /\ UNCHANGED fsvars

-----------------------------------------------------------------------------
(* Paths *)

\* a path component: pathlib's stem and suffix of a name
N(stem, suffix) == [stem |-> stem, suffix |-> suffix]

Root == N("/", "")

\* the working directory of the process
Cwd == <<Root>>

IsAbs(p) == Len(p) > 0 /\ p[1] = Root

\* Path.resolve(): the absolute spelling (the model has no symlinks or "..")
Resolve(p) == IF IsAbs(p) THEN p ELSE Cwd \o p

\* Path.name, as the one-component relative path used by `output / input.name`
Name(p) == <<p[Len(p)]>>

\* Path.parent: the parent of "/" is "/", the parent of "." is "."
Parent(p) == IF p = <<Root>> \/ p = <<>> THEN p ELSE SubSeq(p, 1, Len(p) - 1)

\* Path.suffix: "." and "/" have none
Suffix(p) == IF p = <<>> THEN "" ELSE p[Len(p)].suffix

\* Path.relative_to(base)
RelativeTo(p, base) == SubSeq(p, Len(base) + 1, Len(p))

IsUnder(p, base) == Len(p) > Len(base) /\ SubSeq(p, 1, Len(base)) = base

\* a location and all its ancestors
Prefixes(loc) == { SubSeq(loc, 1, k) : k \in 1..Len(loc) }

-----------------------------------------------------------------------------
(* The file system *)

\* bytes of a file: whether they decode as UTF-8, and the characters they
\* decode to, line ends as stored
Bytes(t) == [utf8 |-> TRUE, text |-> t]
Undecodable == [utf8 |-> FALSE, text |-> <<>>]

\* Path.is_dir()
is_dir(p) == Resolve(p) \in dirs

\* Path.mkdir(parents=True, exist_ok=True) at location loc, on directories ds
MkdirP(loc, ds) ==
    IF loc \in DOMAIN files
    THEN [err |-> "FileExistsError", dirs |-> ds]
    ELSE IF \E q \in Prefixes(loc) : q \in DOMAIN files
    THEN [err |-> "NotADirectoryError", dirs |-> ds]
    ELSE [err |-> "", dirs |-> ds \cup Prefixes(loc)]

\* some proper ancestor of the location is a regular file
UnderFile(loc) == \E q \in Prefixes(loc) : q # loc /\ q \in DOMAIN files

\* open(path, encoding="utf-8") followed by file.read(), on directories ds:
\* the exception, or ""
ReadErr(loc, ds) ==
    IF loc \in ds THEN "IsADirectoryError"
    ELSE IF UnderFile(loc) THEN "NotADirectoryError"
    ELSE IF loc \notin DOMAIN files THEN "FileNotFoundError"
    ELSE IF ~files[loc].utf8 THEN "UnicodeDecodeError"
    ELSE ""

\* open(path, "w", encoding="utf-8") at location loc, on directories ds
WriteErr(loc, ds) ==
    IF loc \in ds THEN "IsADirectoryError"
    ELSE IF UnderFile(loc) THEN "NotADirectoryError"
    ELSE IF Parent(loc) \notin ds THEN "FileNotFoundError"
    ELSE IF loc \in readonly THEN "PermissionError"
    ELSE ""

RECURSIVE universal_newlines(_)
\* text mode with newline=None on reading: "\r\n" and "\r" are read as "\n"
universal_newlines(t) ==
    IF t = <<>> THEN <<>>
    ELSE IF Head(t) = 13
         THEN IF Len(t) >= 2 /\ t[2] = 10
              THEN <<10>> \o universal_newlines(SubSeq(t, 3, Len(t)))   \* "\n"
              ELSE <<10>> \o universal_newlines(Tail(t))   \* "\n"
         ELSE <<Head(t)>> \o universal_newlines(Tail(t))

\* file.read() on the file at location loc
ReadText(loc) == universal_newlines(files[loc].text)

\* the files after file.write(text) on location loc ("\n" is written as it is)
WriteFile(loc, text) ==
    [q \in (DOMAIN files) \cup {loc} |-> IF q = loc THEN Bytes(text) ELSE files[q]]

\* the name matches the glob "*.py": it ends in ".py" (the name ".py" itself
\* has the stem ".py" and no suffix)
MatchesPy(c) == c.suffix = ".py" \/ (c.stem = ".py" /\ c.suffix = "")

\* the entries of the directory dir, as scandir lists them now
Entries(dir) == { q \in (DOMAIN files) \cup dirs : Parent(q) = dir /\ q # dir }

\* what rglob("*.py") yields from one directory: its entries named *.py
glob_py(dir) == { q \in Entries(dir) : MatchesPy(q[Len(q)]) }

\* the sub-directories rglob enters from one directory
SubDirs(dir) == { q \in Entries(dir) : q \in dirs }

\* what rglob uses of the recursion limit, besides one unit per level, when
\* it goes back to a directory for its sub-directories: the frames of rglob,
\* _select_from, _scandir, __fspath__ and __str__, and the call str(self)
\* made by __fspath__, which CPython 3.11 counts as well
RglobFrames == 6

\* the deepest level below input whose entries rglob yields: rglob is a
\* recursive generator with one frame per level (input is level 0), and
\* when it goes back to a directory of this level to list its
\* sub-directories, the interpreter's recursion limit is exceeded
DeepestLevel == room - RglobFrames

\* how many levels below input the directory is
Level(dir) == Len(dir) - Len(input)

\* the levels of rglob's recursion that still have a directory to enter
Unfinished(st) ==
    IF \E k \in 1..Len(st) : st[k] # {}
    THEN SubSeq(st, 1, CHOOSE k \in 1..Len(st) :
                          st[k] # {} /\ \A j \in (k + 1)..Len(st) : st[j] = {})
    ELSE <<>>

-----------------------------------------------------------------------------
(* The decisions of migrate *)

\* Variant of MissingOutput with the test of the flag inverted.
MissingOutputInverted(is_none, inpl) == is_none /\ inpl

\* `if output is None: if not inplace: raise ValueError`
MissingOutput(is_none, inpl) == is_none /\ ~inpl

\* `output.resolve()` as a statement: the resolved path is discarded and
\* `output` keeps the spelling it was given
output_resolve(out) == out

\* `output == input` / `output != input`: equality of pathlib paths
SamePath(out, inp) == out = inp

\* Variant of WriteInPlace that writes every file back.
WriteInPlaceAlways(old, new) == TRUE

\* `if content != new_content:` guarding the write when output == input
WriteInPlace(old, new) == old # new

\* Variant of Changed that reports every file.
ChangedAlways(old, new) == TRUE

\* `if content != new_content:` guarding the notice and the diff
Changed(old, new) == old # new

\* `out = output / inp.relative_to(input)`
DestOf(out, inp, base) == out \o RelativeTo(inp, base)

\* an exception raised in the body of the loop leaves migrate: there is no
\* try/except in the function
Raises(err) == err # ""

\* pprint(f"Updated {path}") and the ---/+++ labels of the unified diff
Notice(path, fromfile, tofile) ==
    [path |-> path, fromfile |-> fromfile, tofile |-> tofile]

\* the effects of one file's processing
Effect(err, ds, fs, rl, wr, nt) ==
    [err |-> err, dirs |-> ds, files |-> fs, readlog |-> rl, written |-> wr,
     notices |-> nt]

-----------------------------------------------------------------------------
(* The world a run starts in *)

InDir == <<Root, N("in", "")>>
RelIn == <<N("in", "")>>
FileA == InDir \o <<N("a", ".py")>>
\* a file whose whole name is ".py"
FileB == InDir \o <<N(".py", "")>>
SubDir == InDir \o <<N("sub", "")>>
FileC == SubDir \o <<N("c", ".py")>>
FileN == InDir \o <<N("n", ".txt")>>
Missing == <<Root, N("nodir", ""), N("m", ".py")>>
\* a missing path without suffix
MissingPlain == <<Root, N("nodir", ""), N("m", "")>>
\* a path below the regular file a.py
BelowFile == FileA \o <<N("g", ".py")>>
\* "."
Dot == <<>>
OutDir == <<Root, N("out", "")>>
RelOut == <<N("out", "")>>
OutB == OutDir \o <<N(".py", "")>>
OutPy == OutDir \o <<N("o", ".py")>>
DeepPy == <<Root, N("new", ""), N("deep", ""), N("o", ".py")>>

\* a directory, not yet there, inside the input directory
InsideOut == InDir \o <<N("o", "")>>

\* a .py path below the missing path m.py
BelowMissing == Missing \o <<N("o", ".py")>>

\* "x" is rewritten, "dx" is not, "d.x" is rewritten by both passes,
\* "Ax\r\n" is not rewritten and ends its line with CR LF
SourceBytes ==
    { Bytes(<<120>>), Bytes(<<100, 120>>), Bytes(<<100, 46, 120>>),   \* "x", "dx", "d.x"
      Bytes(<<65, 120, 13, 10>>), Undecodable }   \* "Ax\r\n"

InputArgs == { InDir, RelIn, FileA, FileN, Missing, MissingPlain, BelowFile }

OutputArgs ==
    { Dot, OutDir, RelOut, InDir, RelIn, FileA, OutPy, DeepPy, BelowMissing,
      InsideOut }

\* the output tree before the run: absent, an empty directory, or a directory
\* holding a write-protected .py; or a write-protected .py in the input
Worlds == { "no_out", "empty_out", "protected_out", "protected_in" }

InFiles(a, b, c) ==
    [q \in { FileA, FileB, FileC, FileN } |->
        IF q = FileA THEN a ELSE IF q = FileB THEN b
        ELSE IF q = FileC THEN c ELSE Bytes(<<121>>)]   \* "y"

WorldFiles(w, a, b, c) ==
    IF w = "protected_out"
    THEN [q \in { FileA, FileB, FileC, FileN, OutB } |->
            IF q = OutB THEN Bytes(<<111, 108, 100>>) ELSE InFiles(a, b, c)[q]]   \* "old"
    ELSE InFiles(a, b, c)

WorldDirs(w) ==
    { <<Root>>, InDir, SubDir }
        \cup (IF w \in { "empty_out", "protected_out" } THEN { OutDir } ELSE {})

WorldReadonly(w) ==
    IF w = "protected_out" THEN { OutB }
    ELSE IF w = "protected_in" THEN { FileB }
    ELSE {}

\* migrate has been called; nothing has run yet
Init ==
    /\ input \in InputArgs
    /\ inplace \in BOOLEAN
    /\ \E is_none \in BOOLEAN :
          /\ output \in (IF is_none THEN { NoPath } ELSE OutputArgs)
          /\ arg = [input |-> input, output |-> output, output_is_none |-> is_none,
                    inplace |-> inplace]
    /\ room \in Rooms
    /\ pc = "start"
    /\ \E w \in Worlds, a \in SourceBytes, b \in SourceBytes, c \in SourceBytes :
          /\ files = WorldFiles(w, a, b, c)
          /\ dirs = WorldDirs(w)
          /\ readonly = WorldReadonly(w)
    /\ files0 = files
    /\ dirs0 = dirs
    /\ cur = NoPath /\ pending = <<>>
    /\ todo = {} /\ enumerated = {} /\ readlog = {} /\ written = {}
    /\ notices = {} /\ error = "" /\ failedAt = NoPath
    /\ RwIdle

-----------------------------------------------------------------------------
(* migrate, step by step *)

\* lines 175-180: resolve input, require an output unless in place
ResolveArgs ==
    /\ pc = "start"
    /\ input' = Resolve(input)
    /\ IF MissingOutput(arg.output_is_none, inplace)
       THEN /\ pc' = "failed"
            /\ error' = "ValueError"
            /\ output' = output
       ELSE /\ pc' = "resolved"
            /\ error' = error
            /\ output' = IF arg.output_is_none THEN input' ELSE output_resolve(output)
    /\ UNCHANGED <<inplace, files, dirs, readonly, files0, dirs0, arg, room, cur, pending,
                   todo, enumerated, readlog, written, notices, failedAt>>
    /\ UNCHANGED rwvars

\* lines 188-194: the destination of a single file, and the directory made for it
SingleDest ==
    IF is_dir(output) THEN [out |-> output \o Name(input), mkdir |-> FALSE]
    ELSE IF Suffix(output) = ".py" THEN [out |-> output, mkdir |-> TRUE]
    ELSE [out |-> output \o Name(input), mkdir |-> TRUE]

\* lines 188-228: the effects of the single-file branch
SingleBody ==
    LET out == SingleDest.out
        mk  == IF SingleDest.mkdir THEN MkdirP(Resolve(Parent(out)), dirs)
               ELSE [err |-> "", dirs |-> dirs]
        rd  == ReadErr(input, mk.dirs)
        rl  == IF input \in DOMAIN files THEN readlog \cup {input} ELSE readlog
        old == ReadText(input)
        new == Rewrite(old)
        wr  == WriteErr(Resolve(out), mk.dirs)
    IN  IF mk.err # "" THEN Effect(mk.err, mk.dirs, files, readlog, written, notices)
        ELSE IF rd # "" THEN Effect(rd, mk.dirs, files, rl, written, notices)
        ELSE IF SamePath(out, input)
        THEN IF WriteInPlace(old, new)
             THEN IF wr # "" THEN Effect(wr, mk.dirs, files, rl, written, notices)
                  ELSE Effect("", mk.dirs, WriteFile(Resolve(out), new), rl,
                              written \cup {Resolve(out)},
                              notices \cup {Notice(out, Resolve(input), Resolve(out))})
             ELSE Effect("", mk.dirs, files, rl, written, notices)
        ELSE IF wr # "" THEN Effect(wr, mk.dirs, files, rl, written, notices)
             ELSE Effect("", mk.dirs, WriteFile(Resolve(out), new), rl,
                         written \cup {Resolve(out)},
                         IF Changed(old, new)
                         THEN notices \cup {Notice(out, input, out)}
                         ELSE notices)

\* lines 187-228: input is not a directory
SingleFile ==
    /\ pc = "resolved"
    /\ ~is_dir(input)
    /\ LET r == SingleBody
       IN  /\ output' = SingleDest.out
           /\ dirs' = r.dirs
           /\ files' = r.files
           /\ readlog' = r.readlog
           /\ written' = r.written
           /\ notices' = r.notices
           /\ error' = r.err
           /\ pc' = IF r.err # "" THEN "failed" ELSE "done"
           /\ failedAt' = IF r.err # "" THEN input ELSE failedAt
    /\ UNCHANGED <<input, inplace, readonly, files0, dirs0, arg, room, cur, pending, todo,
                   enumerated>>
    /\ UNCHANGED rwvars

\* lines 229-231 and 253-254: input is a directory; choose the loop and start
\* rglob, a generator: it lists the *.py entries of input now, and every other
\* directory only when the loop asks for more
BeginWalk ==
    /\ pc = "resolved"
    /\ is_dir(input)
    /\ pc' = IF ~SamePath(output, input) THEN "walk_out" ELSE "walk_in"
    /\ cur' = input
    /\ pending' = <<>>
    /\ todo' = glob_py(input)
    /\ enumerated' = glob_py(input)
    /\ UNCHANGED <<input, output, inplace, files, dirs, readonly, files0, dirs0,
                   arg, room, readlog, written, notices, error, failedAt>>
    /\ UNCHANGED rwvars

\* lines 232-252: the body of the loop taken when output != input
OutputBody(inp) ==
    LET rd  == ReadErr(inp, dirs)
        rl  == IF inp \in DOMAIN files THEN readlog \cup {inp} ELSE readlog
        old == ReadText(inp)
        new == Rewrite(old)
        out == DestOf(output, inp, input)
        mk  == MkdirP(Resolve(Parent(out)), dirs)
        wr  == WriteErr(Resolve(out), mk.dirs)
    IN  IF rd # "" THEN Effect(rd, dirs, files, rl, written, notices)
        ELSE IF mk.err # "" THEN Effect(mk.err, mk.dirs, files, rl, written, notices)
        ELSE IF wr # "" THEN Effect(wr, mk.dirs, files, rl, written, notices)
        ELSE Effect("", mk.dirs, WriteFile(Resolve(out), new), rl,
                    written \cup {Resolve(out)},
                    IF Changed(old, new)
                    THEN notices \cup {Notice(out, Resolve(inp), Resolve(out))}
                    ELSE notices)

\* lines 255-275: the body of the loop taken when output == input
InplaceBody(inp) ==
    LET rd  == ReadErr(inp, dirs)
        rl  == IF inp \in DOMAIN files THEN readlog \cup {inp} ELSE readlog
        old == ReadText(inp)
        new == Rewrite(old)
        out == DestOf(output, inp, input)
        mk  == MkdirP(Resolve(Parent(out)), dirs)
        wr  == WriteErr(Resolve(out), mk.dirs)
    IN  IF rd # "" THEN Effect(rd, dirs, files, rl, written, notices)
        ELSE IF ~WriteInPlace(old, new) THEN Effect("", dirs, files, rl, written, notices)
        ELSE IF mk.err # "" THEN Effect(mk.err, mk.dirs, files, rl, written, notices)
        ELSE IF wr # "" THEN Effect(wr, mk.dirs, files, rl, written, notices)
        ELSE Effect("", mk.dirs, WriteFile(Resolve(out), new), rl,
                    written \cup {Resolve(out)},
                    notices \cup {Notice(out, Resolve(inp), Resolve(out))})

\* one iteration of a loop over rglob, with effects r on the path inp
Iterate(inp, r) ==
    /\ dirs' = r.dirs
    /\ files' = r.files
    /\ readlog' = r.readlog
    /\ written' = r.written
    /\ notices' = r.notices
    /\ IF Raises(r.err)
       THEN /\ pc' = "failed"
            /\ error' = r.err
            /\ failedAt' = inp
            /\ todo' = todo
       ELSE /\ pc' = pc
            /\ error' = error
            /\ failedAt' = failedAt
            /\ todo' = todo \ {inp}
    /\ UNCHANGED <<input, output, inplace, readonly, files0, dirs0, arg, room, cur, pending,
                   enumerated>>
    /\ UNCHANGED rwvars

\* lines 231-252: rglob yields the next path, in no particular order
WalkOutput ==
    /\ pc = "walk_out"
    /\ \E inp \in todo : Iterate(inp, OutputBody(inp))

\* lines 254-275
WalkInplace ==
    /\ pc = "walk_in"
    /\ \E inp \in todo : Iterate(inp, InplaceBody(inp))

\* lines 231 and 254: the entries of cur are used up; rglob lists the
\* sub-directories of cur as they are now, enters one of the directories it
\* has still to enter, in no particular order, and lists its *.py entries;
\* too deep, the for statement raises RecursionError
NextDir ==
    /\ pc \in { "walk_out", "walk_in" }
    /\ todo = {}
    /\ IF Level(cur) >= DeepestLevel
       THEN /\ pc' = "failed"
            /\ error' = "RecursionError"
            /\ UNCHANGED <<cur, pending, todo, enumerated>>
       ELSE LET st == Unfinished(Append(pending, SubDirs(cur)))
            IN  /\ st # <<>>
                /\ \E d \in st[Len(st)] :
                      /\ cur' = d
                      /\ pending' = [st EXCEPT ![Len(st)] = @ \ {d}]
                      /\ todo' = glob_py(d)
                      /\ enumerated' = enumerated \cup glob_py(d)
                /\ UNCHANGED <<pc, error>>
    /\ UNCHANGED <<input, output, inplace, files, dirs, readonly, files0, dirs0,
                   arg, room, readlog, written, notices, failedAt>>
    /\ UNCHANGED rwvars

\* rglob is exhausted: migrate returns
EndWalk ==
    /\ pc \in { "walk_out", "walk_in" }
    /\ todo = {}
    /\ Level(cur) < DeepestLevel
    /\ Unfinished(Append(pending, SubDirs(cur))) = <<>>
    /\ pc' = "done"
    /\ UNCHANGED <<input, output, inplace, files, dirs, readonly, files0, dirs0,
                   arg, room, cur, pending, todo, enumerated, readlog, written, notices,
                   error, failedAt>>
    /\ UNCHANGED rwvars

Next ==
    \/ ResolveArgs
    \/ SingleFile
    \/ BeginWalk
    \/ WalkOutput
    \/ WalkInplace
    \/ NextDir
    \/ EndWalk

Spec == Init /\ [][Next]_vars

NextRewrite ==
    \/ QualifiedPass
    \/ BarePass
    \/ RunAgain

SpecRewrite == InitRewrite /\ [][NextRewrite]_vars

TypeOK ==
    /\ pc \in { "idle", "start", "resolved", "walk_out", "walk_in", "done", "failed" }
    /\ rw_pc \in { "read", "pass1", "pass2" }

-----------------------------------------------------------------------------
(* Reading a text as identifier tokens, for stating the properties *)

\* last position of the run of word characters that starts at i
RunEnd(t, i) ==
    CHOOSE j \in i..Len(t) :
        /\ \A k \in i..j : IsWord(t[k])
        /\ j = Len(t) \/ ~IsWord(t[j + 1])

RECURSIVE TokensFrom(_, _)
\* maximal runs of word characters, and every other character on its own
TokensFrom(t, i) ==
    IF i > Len(t) THEN <<>>
    ELSE IF IsWord(t[i])
         THEN <<SubSeq(t, i, RunEnd(t, i))>> \o TokensFrom(t, RunEnd(t, i) + 1)
         ELSE <<  <<t[i]>>  >> \o TokensFrom(t, i + 1)

Tokens(t) == TokensFrom(t, 1)

RECURSIVE Flatten(_)
Flatten(ts) == IF ts = <<>> THEN <<>> ELSE Head(ts) \o Flatten(Tail(ts))

\* an identifier that has a catalogue name inside it and is none itself
MerelyContains(tok) ==
    /\ tok \notin to_be_replaced
    /\ \E r \in to_be_replaced, i \in 1..Len(tok) : LiteralAt(tok, i, r)

\* token k is the marker of a standalone qualified occurrence d.L
QualifiesAt(ts, k) ==
    /\ k + 2 <= Len(ts)
    /\ ts[k] = <<100>>   \* "d"
    /\ ts[k + 1] = <<46>>   \* "."
    /\ ts[k + 2] \in to_be_replaced

\* what the claim expects of each token: L becomes dL, and the d of a
\* standalone d.L becomes dd
ExpectedTokens(ts) ==
    [k \in 1..Len(ts) |->
        IF ts[k] \in to_be_replaced THEN <<100>> \o ts[k]   \* "d"
        ELSE IF QualifiesAt(ts, k) THEN <<100, 100>>   \* "dd"
        ELSE ts[k]]

FirstRunDone == runs = 1 /\ rw_pc = "pass2"

-----------------------------------------------------------------------------
(* Properties of the rewrite (SpecRewrite) *)

\* C4: the rewritten text is the bare substitution applied to the result of
\* the qualified substitution: after pass 1 every standalone d.L has become
\* dd.L and nothing else has changed; after pass 2 every L, qualified or not,
\* has become dL, so that d.L ends as dd.dL and p.L as p.dL; and the text
\* "p.center = (0, 0)\nd.center" ends as "p.dcenter = (0, 0)\ndd.dcenter".
C4_TwoPassResult ==
    /\ (runs = 1 /\ rw_pc # "read") =>
          mid = Flatten([k \in 1..Len(Tokens(content)) |->
                            IF QualifiesAt(Tokens(content), k) THEN <<100, 100>>   \* "dd"
                            ELSE Tokens(content)[k]])
    /\ FirstRunDone =>
          /\ new_content = Flatten(ExpectedTokens(Tokens(content)))
          /\ content = ScenarioText => new_content = ScenarioRewritten
          /\ \A r \in to_be_replaced :
                /\ content = <<100, 46>> \o r => new_content = <<100, 100, 46, 100>> \o r   \* "d.", "dd.d"
                /\ content = <<114, 101, 46>> \o r => new_content = <<114, 101, 46, 100>> \o r   \* "re.", "re.d"

\* the scenario of the specification has been rewritten
C4_Witness ==
    FirstRunDone /\ content = ScenarioText /\ new_content = ScenarioRewritten

\* C5: rewriting the output of the rewrite changes nothing: every run after
\* the first leaves the text as it found it, after either pass.
C5_Idempotent ==
    runs >= 2 =>
        /\ rw_pc # "read" => mid = content
        /\ rw_pc = "pass2" => new_content = content

\* a second run over the output of the double-marker cascade of d.x
C5_Witness ==
    /\ runs = 2
    /\ rw_pc = "pass2"
    /\ content = <<100, 100, 46, 100, 120>>   \* "dd.dx"
    /\ new_content = content

\* C6: an identifier that merely contains a catalogue name is left as it is,
\* at its place among the tokens; a catalogue name standing alone is rewritten
\* as a whole; and a text with no catalogue name standing alone is returned
\* unchanged.
C6_BoundaryRespect ==
    FirstRunDone =>
        LET ti == Tokens(content)
            to == Tokens(new_content)
        IN  /\ Len(to) = Len(ti)
            /\ \A k \in 1..Len(ti) :
                  /\ MerelyContains(ti[k]) => to[k] = ti[k]
                  /\ ti[k] \in to_be_replaced => to[k] = <<100>> \o ti[k]   \* "d"
            /\ (\A k \in 1..Len(ti) : ti[k] \notin to_be_replaced) =>
                  new_content = content

\* "xd.center" has been rewritten: xd is kept, center is not
C6_Witness ==
    /\ FirstRunDone
    /\ content = <<120, 100, 46, 99, 101, 110, 116, 101, 114>>   \* "xd.center"
    /\ new_content = <<120, 100, 46, 100, 99, 101, 110, 116, 101, 114>>   \* "xd.dcenter"

-----------------------------------------------------------------------------
(* Properties of a run of migrate (Spec) *)

\* the text read from a file as it was before the run ("" for bytes that do
\* not decode)
Text0(f) == universal_newlines(files0[f].text)

\* every entry under the input whose name ends in .py, before the run
PyUnder0 ==
    { f \in (DOMAIN files0) \cup dirs0 : IsUnder(f, input) /\ MatchesPy(f[Len(f)]) }

\* the paths the loop has gone past
Processed == enumerated \ todo

\* the rewrite changes the file f of the input
Rewritten0(f) == Rewrite(Text0(f)) # Text0(f)

Ended == pc \in { "done", "failed" }

\* the input names a directory
DirRun == input \in dirs0

\* the run is past its argument handling with a destination equal to the source
InPlaceRun == pc \notin { "start", "resolved" } /\ SamePath(output, input)

\* C1: when the destination path equals the source path, a file is opened
\* for writing only if its rewritten text differs from its text; a file
\* that is not rewritten keeps its bytes; a notice is printed exactly for
\* the files written; and after a walk over a directory exactly the files
\* that the rewrite changes have been written.
C1_InPlaceWriteSuppression ==
    InPlaceRun =>
        /\ \A loc \in written : loc \in DOMAIN files0 /\ Rewritten0(loc)
        /\ \A f \in DOMAIN files0 : f \notin written => files[f] = files0[f]
        /\ { n.tofile : n \in notices } = written
        /\ (pc = "done" /\ DirRun) =>
              written = { f \in enumerated : Rewritten0(f) }

\* an in-place walk has ended with some files written and others left alone
C1_Witness ==
    /\ InPlaceRun /\ DirRun /\ pc = "done"
    /\ written # {}
    /\ \E f \in enumerated : f \notin written /\ files0[f].utf8

\* C2 (as claimed): a run over an input directory with an output path that
\* is not the input path, in which no file's own reading or writing fails,
\* ends normally with every .py file under the input holding its rewritten
\* text at output / relative(file, input), written whether or not it
\* changed, in a directory that exists; nothing else was written; and a
\* notice was printed for exactly the files that the rewrite changes.
C2_OutputMirrorComplete ==
    (Ended /\ DirRun /\ ~arg.output_is_none /\ ~SamePath(output, input)
        /\ failedAt = NoPath) =>
        /\ pc = "done"
        /\ enumerated = PyUnder0
        /\ \A f \in enumerated :
              LET dest == Resolve(output \o RelativeTo(f, input))
              IN  /\ dest \in DOMAIN files
                  /\ files[dest] = Bytes(Rewrite(Text0(f)))
                  /\ dest \in written
                  /\ Parent(dest) \in dirs
        /\ Cardinality(written) = Cardinality(enumerated)
        /\ { n.fromfile : n \in notices } = { f \in enumerated : Rewritten0(f) }
        /\ \A n \in notices :
              n.tofile = Resolve(output \o RelativeTo(n.fromfile, input))

\* C3 (as claimed): with --inplace set and an existing input, the destination
\* is the source whatever output was given: the output local equals the
\* input, nothing outside the input is written and no directory is created.
C3_InPlaceIgnoresOutput ==
    (arg.inplace /\ pc \notin { "start", "resolved" }
        /\ input \in (DOMAIN files0) \cup dirs0) =>
        /\ SamePath(output, input)
        /\ \A loc \in written : loc = input \/ IsUnder(loc, input)
        /\ dirs = dirs0

\* the destination of the file f of the input
Dest0(f) == Resolve(output \o RelativeTo(f, input))

\* the file f can be processed on its own: it is a regular file that decodes,
\* and its destination can be made and opened for writing
CanProcess(f) ==
    /\ f \in DOMAIN files0
    /\ files0[f].utf8
    /\ Dest0(f) \notin readonly
    /\ Dest0(f) \notin dirs0
    /\ \A a \in Prefixes(Dest0(f)) : a = Dest0(f) \/ a \notin DOMAIN files0

\* C7 (as claimed): when a walk over a directory has ended and the
\* processing of one file failed, the run did not stop there: the walk has
\* gone past every other .py file under the input, and every other file that
\* can be processed has been read, rewritten and written by the rules of
\* the mode (in place only if changed, otherwise always).
C7_ErrorIsolation ==
    (Ended /\ DirRun /\ failedAt \in enumerated) =>
        \A f \in PyUnder0 \ {failedAt} :
            /\ f \in Processed
            /\ CanProcess(f) =>
                  /\ f \in readlog
                  /\ IF SamePath(output, input) /\ ~Rewritten0(f)
                     THEN files[f] = files0[f] /\ f \notin written
                     ELSE /\ Dest0(f) \in written
                          /\ files[Dest0(f)] = Bytes(Rewrite(Text0(f)))

\* C8: without an output path and without --inplace, migrate ends with a
\* ValueError in its first step, whatever the input: no file has been read,
\* no directory created, no file written and nothing printed.
C8_ConfigErrorBeforeIO ==
    (arg.output_is_none /\ ~arg.inplace /\ pc # "start") =>
        /\ pc = "failed"
        /\ error = "ValueError"
        /\ readlog = {} /\ written = {} /\ notices = {}
        /\ dirs = dirs0 /\ files = files0

\* the configuration error has been raised for an input that does not exist
C8_Witness ==
    /\ pc = "failed" /\ error = "ValueError"
    /\ arg.input = Missing /\ arg.output_is_none /\ ~arg.inplace

\* C9 (as claimed): when the input path does not exist (and the arguments
\* are otherwise valid), the run ends with a not-found error and has created
\* no directory and written no file.
C9_MissingInputNoPartialWork ==
    (Ended /\ ~MissingOutput(arg.output_is_none, arg.inplace)
        /\ input \notin (DOMAIN files0) \cup dirs0) =>
        /\ pc = "failed"
        /\ error \in { "FileNotFoundError", "NotADirectoryError" }
        /\ dirs = dirs0
        /\ files = files0

\* C10 (as claimed): once the arguments are handled, the output path in use
\* is absolute; an output that names the location of the input directory is
\* walked in place; and the labels of every diff are absolute.
C10_OutputResolved ==
    (pc # "start" /\ ~arg.output_is_none) =>
        /\ IsAbs(output)
        /\ (pc = "walk_out" => Resolve(arg.output) # input)
        /\ \A n \in notices : IsAbs(n.tofile) /\ IsAbs(n.fromfile)

====
